---- MODULE Spec2Model ----
(***************************************************************************)
(* Mini Cloud-Drive: the file-catalog service of Project/file_storage.py   *)
(* (FileStorageManager) over a blob store (Firebase Storage bucket) and a  *)
(* catalog store (Firestore collection 'files'), driven by Project/app.py. *)
(*                                                                         *)
(* A store call that raises is modelled as having had no effect on the     *)
(* store (each store call is atomic).  Strings are sequences of            *)
(* one-character strings, so that concatenation is \o.  A file's content   *)
(* is modelled by its length; mime_type and file_extension are carried     *)
(* through by the code unchanged and are left out of the records, and the  *)
(* access list make_public() sets is read by nothing and is left out of    *)
(* the bucket.                                                             *)
(***************************************************************************)
EXTENDS Integers, Sequences, FiniteSets, TLC

VARIABLES
    blobs,      \* the bucket: storage key -> [size] of the object stored there
    catalog,    \* the 'files' collection: document id -> metadata
    nextId,     \* the next fresh document id Firestore hands out
    clock,      \* the wall clock datetime.now() reads, in ticks
    result,     \* what the last sequential call returned, with its arguments
    sess        \* the two concurrent sessions running delete_file step by step

vars == <<blobs, catalog, nextId, clock, result, sess>>

----------------------------------------------------------------------------
(* Bounds of the model *)

MaxUploads == 2        \* document ids handed out
MaxClock == 2          \* last tick of the wall clock
TicksPerSecond == 2    \* clock ticks that share one strftime second

(* Program constants *)

MAX_FILE_SIZE_MB == 10
MAX_FILE_SIZE_BYTES == MAX_FILE_SIZE_MB * 1024 * 1024

(* Inputs *)

Names == { <<"a">>, <<"b">> }
Sizes == { MAX_FILE_SIZE_BYTES, MAX_FILE_SIZE_BYTES + 1 }
Sessions == {1, 2}

\* the store call that raises during a call of the service ("none": no call does)
UploadFaults == {"none", "upload_from_string", "make_public", "public_url", "set"}
DeleteFaults == {"none", "blob_delete", "doc_delete"}

----------------------------------------------------------------------------
(* Pure helpers *)

Digit == <<"0", "1", "2", "3", "4", "5", "6", "7", "8", "9">>

\* datetime.now().strftime('%Y%m%d_%H%M%S'): fixed width, one-second precision
Strftime(t) ==
    LET s == t \div TicksPerSecond
    IN  <<Digit[((s \div 10) % 10) + 1], Digit[(s % 10) + 1]>>

\* f"{timestamp}_{original_name}"
UniqueFilename(t, original_name) == Strftime(t) \o <<"_">> \o original_name

\* f"uploads/{unique_filename}"
StoragePath(unique_filename) == <<"uploads/">> \o unique_filename

\* blob.public_url
PublicUrl(path) == <<"https://storage.googleapis.com/bucket/">> \o path

\* round(x / (1024 * 1024), 2), in hundredths of a MB (round half to even);
\* x * 100 / 2^20 is computed as x * 25 / 2^18 to stay within 32-bit integers
RoundMb(bytes) ==
    LET num == bytes * 25
        den == 256 * 1024
        q == num \div den
        r == num % den
    IN  IF 2 * r < den THEN q
        ELSE IF 2 * r > den THEN q + 1
        ELSE IF q % 2 = 0 THEN q ELSE q + 1

Min(a, b) == IF a <= b THEN a ELSE b

----------------------------------------------------------------------------
(* Blob store client *)

\* blob.upload_from_string: creates or overwrites the object at key
BlobPut(bl, key, size) ==
    [k \in DOMAIN bl \cup {key} |->
        IF k = key THEN [size |-> size] ELSE bl[k]]

\* mutant: the blob delete that succeeds on an absent object
BlobDeleteIdempotent(bl, key) ==
    [ok |-> TRUE, error |-> "none",
     blobs |-> [k \in DOMAIN bl \ {key} |-> bl[k]]]

\* blob.delete: raises NotFound when the object is absent
BlobDelete(bl, key) ==
    IF key \notin DOMAIN bl
    THEN [ok |-> FALSE, error |-> "NotFound", blobs |-> bl]
    ELSE [ok |-> TRUE, error |-> "none",
          blobs |-> [k \in DOMAIN bl \ {key} |-> bl[k]]]

(* Catalog store client *)

\* doc_ref.set(metadata) on a fresh document
DocSet(cat, id, metadata) ==
    [d \in DOMAIN cat \cup {id} |-> IF d = id THEN metadata ELSE cat[d]]

\* mutant: the document delete that removes nothing
DocDeleteKeeps(cat, id) == cat

\* document(doc_id).delete(): succeeds whether or not the document exists
DocDelete(cat, id) == [d \in DOMAIN cat \ {id} |-> cat[d]]

\* mutant: the query ordered oldest first
OrderByAscending(cat) ==
    LET n == Cardinality(DOMAIN cat)
    IN  { s \in [1..n -> DOMAIN cat] :
            /\ \A i, j \in 1..n : i # j => s[i] # s[j]
            /\ \A i, j \in 1..n :
                 i < j => cat[s[i]].uploaded_at <= cat[s[j]].uploaded_at }

\* collection.order_by('uploaded_at', DESCENDING).stream(): every order of the
\* documents that is descending in uploaded_at (ties in the store's own order)
OrderByDescending(cat) ==
    LET n == Cardinality(DOMAIN cat)
    IN  { s \in [1..n -> DOMAIN cat] :
            /\ \A i, j \in 1..n : i # j => s[i] # s[j]
            /\ \A i, j \in 1..n :
                 i < j => cat[s[i]].uploaded_at >= cat[s[j]].uploaded_at }

----------------------------------------------------------------------------
(* FileStorageManager *)

\* mutant: the size gate that also rejects a file of exactly the limit
TooLargeInclusive(file_size) == file_size >= MAX_FILE_SIZE_BYTES

\* the size gate of upload_file
TooLarge(file_size) == file_size > MAX_FILE_SIZE_BYTES

\* mutant: the metadata written before the blob
UploadStepsMetadataFirst ==
    <<"set", "upload_from_string", "make_public", "public_url">>

\* the store calls of upload_file's try block, in program order
UploadSteps == <<"upload_from_string", "make_public", "public_url", "set">>

\* mutant: the record deleted before the blob
DeleteStepsCatalogFirst == <<"doc_delete", "blob_delete">>

\* the store calls of delete_file's try block, in program order
DeleteSteps == <<"blob_delete", "doc_delete">>

IsBlobStep(step) ==
    step \in {"upload_from_string", "make_public", "public_url", "blob_delete"}

\* One store call of a try block on the stores st = [blobs, catalog, ...];
\* a = [key, size, id, metadata] are the call's arguments.  The call raises
\* when it is the faulty one, and blob.delete raises on an absent object.
StoreCall(st, step, a, fault) ==
    LET counted == [st EXCEPT
            !.blobCalls = IF IsBlobStep(step) THEN @ + 1 ELSE @,
            !.catCalls = IF IsBlobStep(step) THEN @ ELSE @ + 1]
    IN
    IF step = fault
    THEN [counted EXCEPT !.ok = FALSE, !.error = "StoreError"]
    ELSE CASE step = "upload_from_string" ->
                [counted EXCEPT !.blobs = BlobPut(@, a.key, a.size)]
           [] step \in {"make_public", "public_url"} -> counted
           [] step = "set" ->
                [counted EXCEPT !.catalog = DocSet(@, a.id, a.metadata)]
           [] step = "blob_delete" ->
                LET b == BlobDelete(st.blobs, a.key)
                IN  [counted EXCEPT !.ok = b.ok, !.error = b.error,
                                    !.blobs = b.blobs]
           [] step = "doc_delete" ->
                [counted EXCEPT !.catalog = DocDelete(@, a.id)]

RECURSIVE RunTry(_, _, _, _)
\* try: the calls in order; the first one that raises ends the block
RunTry(st, steps, a, fault) ==
    IF steps = << >> THEN st
    ELSE LET next == StoreCall(st, Head(steps), a, fault)
         IN  IF next.ok THEN RunTry(next, Tail(steps), a, fault) ELSE next

Stores(bl, cat) ==
    [ok |-> TRUE, error |-> "none", blobs |-> bl, catalog |-> cat,
     blobCalls |-> 0, catCalls |-> 0]

Outcome(st) ==
    [success |-> st.ok, error |-> st.error,
     blobCalls |-> st.blobCalls, catCalls |-> st.catCalls]

Idle == [pc |-> "idle"]

Init ==
    /\ blobs = << >>
    /\ catalog = << >>
    /\ nextId = 1
    /\ clock = 0
    /\ result = [op |-> "init"]
    /\ sess = [p \in Sessions |-> Idle]

\* upload_file(uploaded_file): t1 and t2 are the two readings of datetime.now()
UploadFile(original_name, file_size, t1, t2, fault) ==
    LET unique_filename == UniqueFilename(t1, original_name)
        storage_path == StoragePath(unique_filename)
        metadata == [original_name |-> original_name,
                     stored_name |-> unique_filename,
                     size_bytes |-> file_size,
                     size_mb |-> RoundMb(file_size),
                     storage_path |-> storage_path,
                     download_url |-> PublicUrl(storage_path),
                     uploaded_at |-> t2]
        call == [op |-> "upload", size |-> file_size,
                 storage_path |-> storage_path, doc_id |-> nextId]
        a == [key |-> storage_path, size |-> file_size, id |-> nextId,
              metadata |-> metadata]
        st == RunTry(Stores(blobs, catalog), UploadSteps, a, fault)
    IN
    IF TooLarge(file_size)
    THEN /\ result' = [op |-> "upload", size |-> file_size,
                         success |-> FALSE, error |-> "FileTooLarge",
                         blobCalls |-> 0, catCalls |-> 0]
         /\ UNCHANGED <<blobs, catalog, nextId, clock>>
    ELSE /\ result' = call @@ Outcome(st)
         /\ blobs' = st.blobs
         /\ catalog' = st.catalog
         /\ nextId' = IF st.ok THEN nextId + 1 ELSE nextId
         /\ clock' = t2

\* mutant: the handler that returns the documents although the query raised
GetAllFilesIgnoringError(cat, fault) ==
    { [i \in DOMAIN s |-> cat[s[i]] @@ [id |-> s[i]]] :
        s \in OrderByDescending(cat) }

\* get_all_files(): the documents in query order, each with its id added;
\* the empty list when the query raises
GetAllFiles(cat, fault) ==
    IF fault THEN { << >> }
    ELSE { [i \in DOMAIN s |-> cat[s[i]] @@ [id |-> s[i]]] :
             s \in OrderByDescending(cat) }

\* delete_file(doc_id, storage_path)
DeleteFile(doc_id, storage_path, fault) ==
    LET call == [op |-> "delete", doc_id |-> doc_id,
                 storage_path |-> storage_path]
        a == [key |-> storage_path, id |-> doc_id]
        st == RunTry(Stores(blobs, catalog), DeleteSteps, a, fault)
    IN  /\ result' = call @@ Outcome(st)
        /\ blobs' = st.blobs
        /\ catalog' = st.catalog
        /\ UNCHANGED <<nextId, clock>>

RECURSIVE SumSizeBytes(_)
\* sum(f.get('size_bytes', 0) for f in files)
SumSizeBytes(files) ==
    IF files = << >> THEN 0
    ELSE (IF "size_bytes" \in DOMAIN Head(files)
          THEN Head(files).size_bytes ELSE 0)
         + SumSizeBytes(Tail(files))

\* mutant: the file count kept as a counter of uploads, never decremented
GetStorageStatsCounted(files) ==
    [total_files |-> nextId - 1,
     total_size_bytes |-> SumSizeBytes(files),
     total_size_mb |-> RoundMb(SumSizeBytes(files))]

\* get_storage_stats() over the list its call of get_all_files() returned
GetStorageStats(files) ==
    [total_files |-> Len(files),
     total_size_bytes |-> SumSizeBytes(files),
     total_size_mb |-> RoundMb(SumSizeBytes(files))]

----------------------------------------------------------------------------
(* The sequential service: one call at a time, as one Streamlit session     *)
(* issues them.                                                            *)

\* every storage key upload_file can build within the bounds
AllPaths ==
    { StoragePath(UniqueFilename(t, n)) : t \in 0..MaxClock, n \in Names }

\* the (id, storage_path) pairs of the records now in the catalog
ListedPairs == { <<d, catalog[d].storage_path>> : d \in DOMAIN catalog }

Upload ==
    /\ nextId <= MaxUploads
    /\ \E original_name \in Names, file_size \in Sizes, fault \in UploadFaults :
       \E t1 \in clock..Min(clock + 1, MaxClock) :
       \E t2 \in t1..Min(t1 + 1, MaxClock) :
          UploadFile(original_name, file_size, t1, t2, fault)
    /\ UNCHANGED sess

\* the delete button of app.py: the pair comes from a listed record
Delete ==
    /\ \E pair \in ListedPairs, fault \in DeleteFaults :
          DeleteFile(pair[1], pair[2], fault)
    /\ UNCHANGED sess

\* delete_file called with a pair that is not listed (a stale listing of
\* another session): an id once handed out, any key
DeleteAny ==
    /\ \E doc_id \in 1..(nextId - 1), storage_path \in AllPaths :
          /\ <<doc_id, storage_path>> \notin ListedPairs
          /\ DeleteFile(doc_id, storage_path, "none")
    /\ UNCHANGED sess

List ==
    /\ \E fault \in BOOLEAN : \E files \in GetAllFiles(catalog, fault) :
          result' = [op |-> "list", failed |-> fault, files |-> files]
    /\ UNCHANGED <<blobs, catalog, nextId, clock, sess>>

Stats ==
    /\ \E fault \in BOOLEAN : \E files \in GetAllFiles(catalog, fault) :
          result' = [op |-> "stats", failed |-> fault,
                     stats |-> GetStorageStats(files)]
    /\ UNCHANGED <<blobs, catalog, nextId, clock, sess>>

Next == Upload \/ Delete \/ DeleteAny \/ List \/ Stats

Spec == Init /\ [][Next]_vars

----------------------------------------------------------------------------
(* Claims about the sequential service (Spec) *)

RECURSIVE SumOver(_, _)
SumOver(cat, ids) ==
    IF ids = {} THEN 0
    ELSE LET d == CHOOSE x \in ids : TRUE
         IN  cat[d].size_bytes + SumOver(cat, ids \ {d})

PathsOf(cat) == { cat[d].storage_path : d \in DOMAIN cat }

\* C2: an upload that fails after the size check returns failure and leaves
\* the catalog exactly as it was: an upload returns success only when all four
\* store calls were made, and a failed one adds no record (none under the id
\* it would have used), whichever call raised.
C2_FailedUploadLeavesCatalog ==
    [][ result'.op = "upload" =>
          /\ result'.success =>
                /\ result'.blobCalls = 3 /\ result'.catCalls = 1
                /\ result'.doc_id \in DOMAIN catalog'
          /\ ~result'.success =>
                /\ catalog' = catalog
                /\ nextId' = nextId
                /\ result'.error # "FileTooLarge" =>
                      result'.doc_id \notin DOMAIN catalog' ]_vars

\* the metadata insert raised after the blob was written: the blob is an
\* orphan, no record names it
C2_Witness ==
    /\ result.op = "upload" /\ ~result.success
    /\ result.error = "StoreError" /\ result.catCalls = 1
    /\ result.storage_path \in DOMAIN blobs
    /\ result.storage_path \notin PathsOf(catalog)

\* C3: when the blob delete of delete_file fails (no blob at storage_path, or
\* the call raises), delete_file returns failure, makes no call to the catalog
\* store, and the catalog (the record doc_id included) is as before.
C3_FailedBlobDeleteKeepsRecord ==
    [][ result'.op = "delete" =>
          /\ result'.storage_path \notin DOMAIN blobs =>
                /\ ~result'.success
                /\ result'.error \in {"NotFound", "StoreError"}
                /\ result'.catCalls = 0
                /\ catalog' = catalog
          /\ (~result'.success /\ blobs' = blobs) =>
                /\ result'.catCalls = 0
                /\ catalog' = catalog ]_vars

\* a listed record whose blob is gone: the delete failed and the record stays
C3_Witness ==
    /\ result.op = "delete" /\ ~result.success /\ result.error = "NotFound"
    /\ result.doc_id \in DOMAIN catalog
    /\ catalog[result.doc_id].storage_path = result.storage_path

\* C4: a delete_file(id, storage_path) that returns success leaves no record
\* id in the catalog and no blob at storage_path, and every other record and
\* blob as it was.
C4_SuccessfulDeleteRemovesBoth ==
    [][ (result'.op = "delete" /\ result'.success) =>
          /\ result'.doc_id \notin DOMAIN catalog'
          /\ result'.storage_path \notin DOMAIN blobs'
          /\ DOMAIN catalog' = DOMAIN catalog \ {result'.doc_id}
          /\ \A d \in DOMAIN catalog' : catalog'[d] = catalog[d]
          /\ DOMAIN blobs' = DOMAIN blobs \ {result'.storage_path}
          /\ \A k \in DOMAIN blobs' : blobs'[k] = blobs[k] ]_vars

\* a successful delete that left another record and another blob in place
C4_Witness ==
    /\ result.op = "delete" /\ result.success
    /\ catalog # << >>
    /\ blobs # << >>

\* C5: an upload larger than 10 * 1024 * 1024 bytes fails with no call to
\* either store and both stores unchanged; one of exactly that size is not
\* rejected by the size gate.
C5_SizeGate ==
    [][ result'.op = "upload" =>
          /\ result'.size > 10 * 1024 * 1024 =>
                /\ ~result'.success
                /\ result'.error = "FileTooLarge"
                /\ result'.blobCalls = 0 /\ result'.catCalls = 0
                /\ blobs' = blobs /\ catalog' = catalog
          /\ result'.size <= 10 * 1024 * 1024 =>
                /\ result'.error # "FileTooLarge"
                /\ result'.blobCalls >= 1 ]_vars

\* an oversized upload rejected while the stores hold a file
C5_Witness ==
    /\ result.op = "upload" /\ result.size = 10 * 1024 * 1024 + 1
    /\ ~result.success
    /\ catalog # << >> /\ blobs # << >>

StrictlyIncreasing(cat) ==
    \A d, e \in DOMAIN cat : d < e => cat[d].uploaded_at < cat[e].uploaded_at

\* C6: when the records in the catalog were uploaded at strictly increasing
\* uploaded_at, get_all_files returns exactly those records, each once, most
\* recent first (uploaded_at strictly descending, the reverse of the order of
\* upload).
C6_ListNewestFirst ==
    (result.op = "list" /\ ~result.failed /\ StrictlyIncreasing(catalog)) =>
        LET files == result.files
        IN  /\ Len(files) = Cardinality(DOMAIN catalog)
            /\ { files[i].id : i \in DOMAIN files } = DOMAIN catalog
            /\ \A i \in DOMAIN files :
                  files[i] = catalog[files[i].id] @@ [id |-> files[i].id]
            /\ \A i, j \in DOMAIN files :
                  i < j => /\ files[i].uploaded_at > files[j].uploaded_at
                           /\ files[i].id > files[j].id

\* a listing of two records uploaded at different times
C6_Witness ==
    /\ result.op = "list" /\ ~result.failed
    /\ StrictlyIncreasing(catalog)
    /\ Len(result.files) >= 2

\* C7: get_storage_stats returns the number of records get_all_files returns
\* on the same state and the sum of their size_bytes: the count and the sum of
\* the catalog as it is now, after every upload and delete.
C7_StatsMatchListing ==
    result.op = "stats" =>
        /\ \A files \in GetAllFiles(catalog, result.failed) :
              /\ result.stats.total_files = Len(files)
              /\ result.stats.total_size_bytes =
                    SumOver(files, DOMAIN files)
        /\ ~result.failed =>
              /\ result.stats.total_files = Cardinality(DOMAIN catalog)
              /\ result.stats.total_size_bytes =
                    SumOver(catalog, DOMAIN catalog)

\* statistics taken after a record was deleted and another remains
C7_Witness ==
    /\ result.op = "stats" /\ ~result.failed
    /\ result.stats.total_files = 1
    /\ nextId = 3

\* C8: when the catalog query raises, get_all_files returns the empty list
\* and get_storage_stats returns zeros; neither call changes either store,
\* whether the query raises or not.
C8_ReadsDegradeAndChangeNothing ==
    [][ result'.op \in {"list", "stats"} =>
          /\ blobs' = blobs /\ catalog' = catalog
          /\ (result'.op = "list" /\ result'.failed) => result'.files = << >>
          /\ (result'.op = "stats" /\ result'.failed) =>
                result'.stats = [total_files |-> 0, total_size_bytes |-> 0,
                                 total_size_mb |-> 0] ]_vars

\* the query raised while the catalog holds records
C8_Witness ==
    /\ result.op = "stats" /\ result.failed
    /\ result.stats.total_files = 0
    /\ catalog # << >>

----------------------------------------------------------------------------
(* The service as app.py drives it: every delete comes from the delete      *)
(* button of a listed record.                                              *)

NextApp == Upload \/ Delete \/ List \/ Stats

SpecApp == Init /\ [][NextApp]_vars

(* The same, restricted to uploads and deletes that return success: no     *)
(* store call of theirs raises and no upload is over the size limit.       *)

UploadOk ==
    /\ nextId <= MaxUploads
    /\ \E original_name \in Names, file_size \in Sizes :
       \E t1 \in clock..Min(clock + 1, MaxClock) :
       \E t2 \in t1..Min(t1 + 1, MaxClock) :
          /\ UploadFile(original_name, file_size, t1, t2, "none")
          /\ result'.success
    /\ UNCHANGED sess

DeleteOk ==
    /\ \E pair \in ListedPairs :
          /\ DeleteFile(pair[1], pair[2], "none")
          /\ result'.success
    /\ UNCHANGED sess

NextOk == UploadOk \/ DeleteOk \/ List \/ Stats

SpecOk == Init /\ [][NextOk]_vars

----------------------------------------------------------------------------
(* Two sessions that press the delete button of the same listed record:    *)
(* each runs delete_file's store calls one at a time, interleaved with the *)
(* other's.  No call raises but blob.delete on an absent object.           *)

AllIdle == \A p \in Sessions : sess[p].pc = "idle"

\* the catalog is filled by sequential uploads before the two deletes start
SetupUpload == AllIdle /\ Upload

\* both sessions call delete_file(id, storage_path) for one listed record
\* whose blob is in the bucket
BeginDeletes ==
    /\ AllIdle
    /\ \E pair \in ListedPairs :
          /\ pair[2] \in DOMAIN blobs
          /\ sess' = [p \in Sessions |->
                        [pc |-> "calling", doc_id |-> pair[1],
                         storage_path |-> pair[2], step |-> 1]]
    /\ UNCHANGED <<blobs, catalog, nextId, clock, result>>

\* session p makes the next store call of its delete_file
DeleteStep(p) ==
    /\ sess[p].pc = "calling"
    /\ LET me == sess[p]
           a == [key |-> me.storage_path, id |-> me.doc_id]
           st == StoreCall(Stores(blobs, catalog), DeleteSteps[me.step],
                           a, "none")
           returned == [pc |-> "returned", doc_id |-> me.doc_id,
                        storage_path |-> me.storage_path,
                        success |-> st.ok, error |-> st.error]
       IN  /\ blobs' = st.blobs
           /\ catalog' = st.catalog
           /\ sess' = [sess EXCEPT ![p] =
                         IF ~st.ok \/ me.step = Len(DeleteSteps)
                         THEN returned
                         ELSE [me EXCEPT !.step = me.step + 1]]
    /\ UNCHANGED <<nextId, clock, result>>

NextConc == SetupUpload \/ BeginDeletes \/ \E p \in Sessions : DeleteStep(p)

SpecConc == Init /\ [][NextConc]_vars

----------------------------------------------------------------------------
(* Claims about the two stores *)

NoDanglingRecord ==
    \A d \in DOMAIN catalog : catalog[d].storage_path \in DOMAIN blobs

NoOrphanBlob == \A k \in DOMAIN blobs : k \in PathsOf(catalog)

NoSharedPath ==
    \A d, e \in DOMAIN catalog :
        d # e => catalog[d].storage_path # catalog[e].storage_path

\* C1: after upload_file and delete_file calls that each returned success
\* (deletes of listed pairs), the catalog and the bucket correspond one to
\* one: every record's storage_path names a blob, every blob is the
\* storage_path of a record, and no two records share a storage_path.
C1_OneToOne == NoDanglingRecord /\ NoOrphanBlob /\ NoSharedPath

\* C9: after upload_file and delete_file calls have returned, whether with
\* success or because a store call raised, every record in the catalog has a
\* blob at its storage_path (deletes of listed pairs).
C9_NoDanglingReference == NoDanglingRecord

Returned == { p \in Sessions : sess[p].pc = "returned" }

\* C10: of two concurrent delete_file calls for the same record at most one
\* returns success, and once both have returned neither the blob nor the
\* record remains.
C10_ConcurrentDeletes ==
    /\ Cardinality({ p \in Returned : sess[p].success }) <= 1
    /\ Returned = Sessions =>
          \A p \in Sessions :
             /\ sess[p].storage_path \notin DOMAIN blobs
             /\ sess[p].doc_id \notin DOMAIN catalog

\* both calls have returned, one with success and one with NotFound
C10_Witness ==
    /\ Returned = Sessions
    /\ \E p, q \in Sessions :
          /\ sess[p].success
          /\ ~sess[q].success /\ sess[q].error = "NotFound"

====
